---- MODULE Spec2Model ----
(***************************************************************************)
(* The crossword constraint encoder (crossword.py: square grid,            *)
(* hex_crossword.py: hexagonal disk) as a state machine.  A run validates  *)
(* its input, encodes the placement problem as a list of assertions, hands *)
(* the assertions to the solver, and interprets the model the solver       *)
(* returns.  A satisfying assignment of the encoded formula is the state   *)
(* (grid, P, S, ccStartRow, ccStart, inCc) reached by the solve step.      *)
(*                                                                         *)
(* A word is a sequence of one-character strings, a cell is a pair         *)
(* <<x, y>> (square grid) or <<q, r>> (hex disk), and a placement variable *)
(* is a triple <<word, cell, orientation>>.                                *)
(***************************************************************************)
EXTENDS Integers, Sequences, FiniteSets, TLC

\* Bounds of the model: the largest grid side, hex radius and minimum quality.
MaxSize == 3
MaxRadius == 1
MaxQuality == 3

\* The word lists the runs are started with (already deduplicated, upper case).
WordLists ==
    { { <<"A", "B">>, <<"B", "A">> },
      { <<"A">>, <<"A", "B">> },
      { <<"A", "B", "A">>, <<"A", "B">> } }

VARIABLES
    geom,            \* "rect" (crossword.py) or "hex" (hex_crossword.py)
    words,           \* the deduplicated word list
    size,            \* grid side N (rect) or radius R (hex)
    minQuality,      \* the quality floor Q
    pc,              \* position of the run
    grid_coords,     \* the cells of the grid
    placement_vars,  \* every placement variable that was created
    word_placement_vars,   \* word -> its placement variables of legal placements
    possible_placements,   \* <<cell, orientation>> -> the legal placement variables there
    asserted,        \* literals asserted on top of the formula (round trip)
    grid,            \* model: cell -> character or EMPTY
    P,               \* model: the placement variables that are true
    S,               \* model: the words whose selection variable is true
    ccStartRow,      \* model: rows whose ccStartRow variable is true (rect)
    ccStart,         \* model: cells whose start variable is true
    inCc,            \* model: inCc[i] = cells whose reach_i variable is true
    placement,       \* the result of interpret: word -> <<cell, orientation>>
    break_symmetry,  \* the symmetry-breaking flag of generateHexCrossword
    cnf,             \* "written" once exportCNF has written the CNF file
    calls,           \* the number of calls of solve
    result,          \* what the solver's check returned
    report,          \* what the run reports to its caller
    output,          \* solve_cnf.py: the lines of the SAT solver's output
    parsed,          \* solve_cnf.py: what parse_solver_output returned
    cwd,             \* app.py: the working directory of the server process
    tpc,             \* app.py: request -> position of its handler
    original_dir,    \* app.py: request -> the handler's local original_dir
    started_in       \* app.py: request -> working directory its subprocess got

vars == <<geom, words, size, minQuality, pc, grid_coords, placement_vars,
          word_placement_vars, possible_placements, asserted,
          grid, P, S, ccStartRow, ccStart, inCc, placement,
          break_symmetry, cnf, calls, result, report, output, parsed,
          cwd, tpc, original_dir, started_in>>

input == <<geom, words, size, minQuality, break_symmetry>>
encoding == <<grid_coords, placement_vars, word_placement_vars, possible_placements>>
model == <<grid, P, S, ccStartRow, ccStart, inCc>>
outcome == <<cnf, calls, result, report>>
parser == <<output, parsed>>
server == <<cwd, tpc, original_dir, started_in>>

\* Nothing exported, solved or reported yet.
NoOutcome == cnf = "none" /\ calls = 0 /\ result = "none" /\ report = "none"

\* No solver output read.
NoParser == output = <<>> /\ parsed = <<>>

\* No request received.
NoServer == cwd = <<"base">> /\ tpc = <<>> /\ original_dir = <<>> /\ started_in = <<>>

----------------------------------------------------------------------------
(* Geometry *)

EMPTY == "empty"

Abs(n) == IF n < 0 THEN -n ELSE n

Max(ns) == CHOOSE n \in ns : \A m \in ns : m <= n

\* product(range(size), repeat=2), as pairs <<x, y>>
RectCells(n) == { <<x, y>> : x \in 0..(n - 1), y \in 0..(n - 1) }

get_hex_cells_in_radius(radius) ==
    { c \in (-radius..radius) \X (-radius..radius) :
        Abs(c[1]) + Abs(c[2]) + Abs(-c[1] - c[2]) <= 2 * radius }

get_hex_neighbors(c) ==
    { <<c[1] + 1, c[2]>>, <<c[1] - 1, c[2]>>,
      <<c[1], c[2] + 1>>, <<c[1], c[2] - 1>>,
      <<c[1] + 1, c[2] - 1>>, <<c[1] - 1, c[2] + 1>> }

\* The four cells the square encoder looks at around <<x, y>>.
RectNeighbors(c) ==
    { <<c[1] - 1, c[2]>>, <<c[1] + 1, c[2]>>, <<c[1], c[2] - 1>>, <<c[1], c[2] + 1>> }

\* The cells of the encoded grid (grid_coords of the hex encoder).
Cells == grid_coords

Orientations == IF geom = "rect" THEN {0, 1} ELSE {0, 1, 2}

\* Square grid: orientation 0 is horizontal (x + i, y), 1 is vertical (x, y + i).
RectStep(c, o, i) == IF o = 0 THEN <<c[1] + i, c[2]>> ELSE <<c[1], c[2] + i>>

\* Hex disk: 0 keeps r, 1 keeps q, 2 keeps s = -q-r.
HexStep(c, o, i) ==
    IF o = 0 THEN <<c[1] + i, c[2]>>
    ELSE IF o = 1 THEN <<c[1], c[2] + i>>
    ELSE <<c[1] + i, c[2] - i>>

Step(c, o, i) == IF geom = "rect" THEN RectStep(c, o, i) ELSE HexStep(c, o, i)

\* Reading order of the cells: row-major (y, then x) on the square grid,
\* (q, r) lexicographic on the hex disk (the order of grid_coords).
RectBefore(a, b) == a[2] < b[2] \/ (a[2] = b[2] /\ a[1] < b[1])

HexBefore(a, b) == a[1] < b[1] \/ (a[1] = b[1] /\ a[2] < b[2])

----------------------------------------------------------------------------
(* encodeProblem: variables *)

Range(w) == { w[i] : i \in 1..Len(w) }

\* chars = list(set("".join(words)))
chars == UNION { Range(w) : w \in words }

Values == chars \cup {EMPTY}

\* RectFits with every placement taken as fitting.
RectFitsAlways(w, c, o) == TRUE

\* "Fits horizontally" / "Fits vertically"
RectFits(w, c, o) ==
    IF o = 0 THEN c[1] + Len(w) <= size ELSE c[2] + Len(w) <= size

\* valid_placement: every cell of the word path is in grid_coords_set
HexValidPlacement(cells, w, c, o) ==
    \A i \in 0..(Len(w) - 1) : HexStep(c, o, i) \in cells

Fits(cells, w, c, o) ==
    IF geom = "rect" THEN RectFits(w, c, o) ELSE HexValidPlacement(cells, w, c, o)

\* placement_vars: one variable per word, cell and orientation
AllPlacementVars(cells) ==
    { <<w, c, o>> : w \in words, c \in cells, o \in Orientations }

\* The placement variables that occur in the assertions.
legal == UNION { word_placement_vars[w] : w \in words }

\* maxDistance with half the side as the bound.
maxDistanceHalf(n) == n \div 2

\* maxDistance(size)
maxDistance(n) == (((n + 1) * (n + 1)) \div 2) - 1

\* max_dist = len(grid_coords) // 2
HexMaxDist(radius) == Cardinality(get_hex_cells_in_radius(radius)) \div 2

MaxDist == IF geom = "rect" THEN maxDistance(size) ELSE HexMaxDist(size)

----------------------------------------------------------------------------
(* encodeProblem: the assertions, each a predicate on an assignment.       *)
(* g is the grid, p the set of true placement variables, s the set of      *)
(* selected words, row/st the true ccStartRow/ccStart variables and rc the *)
(* function i -> cells whose reach_i variable is true.                     *)

\* word_symbols: the cells under the letters of the word, in order
WordSymbols(w, c, o) == [i \in 1..Len(w) |-> Step(c, o, i - 1)]

\* MatchPairs with the last letter of the word left out.
MatchPairsButLast(w, c, o) ==
    { <<WordSymbols(w, c, o)[i], w[i]>> : i \in 1..(Len(w) - 1) }

\* zip(word, word_symbols), as pairs <<cell, character>>
MatchPairs(w, c, o) == { <<WordSymbols(w, c, o)[i], w[i]>> : i \in 1..Len(w) }

\* match_expr = And([chars_enc[c] == sym for c, sym in zip(word, word_symbols)])
MatchExpr(g, w, c, o) == \A pr \in MatchPairs(w, c, o) : g[pr[1]] = pr[2]

\* RectBoundingChars without the cell after the end of the word.
RectBoundingCharsBefore(w, c, o) ==
    LET k == IF o = 0 THEN c[1] ELSE c[2]
    IN  IF k - 1 >= 0 THEN {RectStep(c, o, -1)} ELSE {}

\* bounding_chars of the square grid: the cell before the start when
\* x - 1 >= 0 (y - 1 >= 0), the cell after the end when x + len < size.
RectBoundingChars(w, c, o) ==
    LET k == IF o = 0 THEN c[1] ELSE c[2]
    IN  (IF k - 1 >= 0 THEN {RectStep(c, o, -1)} ELSE {})
        \cup (IF k + Len(w) < size THEN {RectStep(c, o, Len(w))} ELSE {})

\* HexPrevCell with the cell before along axis 2 mirrored.
HexPrevCellMirrored(c, o) ==
    IF o = 0 THEN <<c[1] - 1, c[2]>>
    ELSE IF o = 1 THEN <<c[1], c[2] - 1>>
    ELSE <<c[1] - 1, c[2] - 1>>

\* prev_cell of the hex encoder, for the bounding and for seq_start
HexPrevCell(c, o) ==
    IF o = 0 THEN <<c[1] - 1, c[2]>>
    ELSE IF o = 1 THEN <<c[1], c[2] - 1>>
    ELSE <<c[1] - 1, c[2] + 1>>

\* next_cell of the hex encoder: n = len(word) for the bounding, 1 for
\* seq_start
HexNextCell(c, o, n) ==
    IF o = 0 THEN <<c[1] + n, c[2]>>
    ELSE IF o = 1 THEN <<c[1], c[2] + n>>
    ELSE <<c[1] + n, c[2] - n>>

\* bounding_cells of the hex disk: prev_cell and next_cell when in the grid
HexBoundingCells(w, c, o) ==
    {HexPrevCell(c, o), HexNextCell(c, o, Len(w))} \cap Cells

BoundingChars(w, c, o) ==
    IF geom = "rect" THEN RectBoundingChars(w, c, o) ELSE HexBoundingCells(w, c, o)

\* bounded_by_spaces = And([sym == char_empty for sym in bounding_chars])
BoundedBySpaces(g, w, c, o) == \A b \in BoundingChars(w, c, o) : g[b] = EMPTY

\* Implies(p_var, match_expr) and Implies(p_var, bounded) of every legal variable
PlacementEffects(g, p) ==
    \A v \in legal :
        /\ v \in p => MatchExpr(g, v[1], v[2], v[3])
        /\ v \in p => BoundedBySpaces(g, v[1], v[2], v[3])

\* AtMostOne with the bound off by one.
AtMostTwo(p, w) == Cardinality(p \cap word_placement_vars[w]) <= 2

\* AtMost(*word_placement_vars, 1)
AtMostOne(p, w) == Cardinality(p \cap word_placement_vars[w]) <= 1

\* SelectedIsPlaced with the implication turned around.
PlacedIsSelected(p, s, w) == (p \cap word_placement_vars[w]) # {} => w \in s

\* Implies(word_selection[word], Or(word_placement_vars))
SelectedIsPlaced(p, s, w) == w \in s => (p \cap word_placement_vars[w]) # {}

WordConstraints(p, s) ==
    \A w \in words : AtMostOne(p, w) /\ SelectedIsPlaced(p, s, w)

\* RectSeqPlaces with the vertical starts only.
RectSeqPlacesVertical ==
    { co \in Cells \X {1} : co[1][2] + 1 < size }

\* RectSeqPlaces with the horizontal starts only.
RectSeqPlacesHorizontal ==
    { co \in Cells \X {0} : co[1][1] + 1 < size }

\* The (cell, orientation) pairs that get a seq_start assertion.
RectSeqPlaces ==
    { co \in Cells \X {0, 1} :
        IF co[2] = 0 THEN co[1][1] + 1 < size ELSE co[1][2] + 1 < size }

\* HexSeqPlaces with the loop over the orientations stopping after axis 1.
HexSeqPlacesTwoAxes ==
    { co \in Cells \X {0, 1} : HexStep(co[1], co[2], 1) \in Cells }

\* HexSeqPlaces with only the starts whose cell before is in the grid too.
HexSeqPlacesInner ==
    { co \in Cells \X {0, 1, 2} :
        HexStep(co[1], co[2], 1) \in Cells /\ HexStep(co[1], co[2], -1) \in Cells }

HexSeqPlaces ==
    { co \in Cells \X {0, 1, 2} : HexStep(co[1], co[2], 1) \in Cells }

SeqPlaces == IF geom = "rect" THEN RectSeqPlaces ELSE HexSeqPlaces

\* seq_start = And(prev empty (or no prev), cur not empty, next not empty)
RectSeqStart(g, c, o) ==
    LET k == IF o = 0 THEN c[1] ELSE c[2]
    IN  /\ (IF k - 1 >= 0 THEN g[RectStep(c, o, -1)] = EMPTY ELSE TRUE)
        /\ g[c] # EMPTY
        /\ g[RectStep(c, o, 1)] # EMPTY

HexSeqStart(g, c, o) ==
    /\ (IF HexPrevCell(c, o) \in Cells THEN g[HexPrevCell(c, o)] = EMPTY ELSE TRUE)
    /\ g[c] # EMPTY
    /\ g[HexNextCell(c, o, 1)] # EMPTY

SeqStart(g, c, o) ==
    IF geom = "rect" THEN RectSeqStart(g, c, o) ELSE HexSeqStart(g, c, o)

\* SeqStartMatchesPlacement as an implication from the placements only.
PlacementIsSeqStart(g, p, c, o) ==
    (p \cap possible_placements[<<c, o>>]) # {} => SeqStart(g, c, o)

\* res.append(seq_start == Or(possible_placements[c][o]))
SeqStartMatchesPlacement(g, p, c, o) ==
    SeqStart(g, c, o) <=> (p \cap possible_placements[<<c, o>>]) # {}

NoJunk(g, p) ==
    \A co \in SeqPlaces : SeqStartMatchesPlacement(g, p, co[1], co[2])

NonEmpty(g) == { c \in Cells : g[c] # EMPTY }

\* And(inCurRow, notInPrevRows) == ccStartRow[y]
RectCcStartRowOK(g, row) ==
    \A y \in 0..(size - 1) :
        ((\E x \in 0..(size - 1) : g[<<x, y>>] # EMPTY) /\ (\A i \in 0..(y - 1) : i \notin row))
            <=> y \in row

\* RectCcStartOK without notInPrevPos.
RectCcStartOKAnyInRow(g, row, st) ==
    \A c \in Cells : (c[2] \in row /\ g[c] # EMPTY) <=> c \in st

\* And(ccStartRow[y], inCurPos, notInPrevPos) == ccStart[y][x]
RectCcStartOK(g, row, st) ==
    \A c \in Cells :
        (c[2] \in row /\ g[c] # EMPTY /\ (\A i \in 0..(c[1] - 1) : <<i, c[2]>> \notin st))
            <=> c \in st

\* cc_start[c] == And(grid[c] != empty, And(prev_cells_empty))
HexCcStartOK(g, st) ==
    \A c \in Cells :
        c \in st <=> (g[c] # EMPTY /\ \A b \in Cells : HexBefore(b, c) => g[b] = EMPTY)

\* reasons: the cell itself and its neighbours inside the grid
RectReasons(c) == {c} \cup (RectNeighbors(c) \cap Cells)

HexReasons(c) == {c} \cup (get_hex_neighbors(c) \cap Cells)

Reasons(c) == IF geom = "rect" THEN RectReasons(c) ELSE HexReasons(c)

\* ReachStep without the test that the cell itself holds a letter.
ReachStepAnyCell(g, c, prev) == (Reasons(c) \cap prev) # {}

\* And(grid[c] != char_empty, Or(reasons)), the reasons read at level i - 1
ReachStep(g, c, prev) == g[c] # EMPTY /\ (Reasons(c) \cap prev) # {}

\* All non-empty grid entries must reach the CC start
AllReach(g, last) == \A c \in Cells : g[c] # EMPTY => c \in last

\* Square grid: ccStart == inCc[0]; inCc[i] implies the step; closure.
RectReachOK(g, st, rc) ==
    /\ \A c \in Cells : c \in st <=> c \in rc[0]
    /\ \A c \in Cells : \A i \in 1..MaxDist : c \in rc[i] => ReachStep(g, c, rc[i - 1])
    /\ AllReach(g, rc[MaxDist])

\* Hex disk: in_cc[0] == cc_start; in_cc[i] == the step; closure.
HexReachOK(g, st, rc) ==
    /\ \A c \in Cells : c \in rc[0] <=> c \in st
    /\ \A c \in Cells : \A i \in 1..MaxDist : c \in rc[i] <=> ReachStep(g, c, rc[i - 1])
    /\ AllReach(g, rc[MaxDist])

Connected(g, row, st, rc) ==
    IF geom = "rect"
    THEN RectCcStartRowOK(g, row) /\ RectCcStartOK(g, row, st) /\ RectReachOK(g, st, rc)
    ELSE row = {} /\ HexCcStartOK(g, st) /\ HexReachOK(g, st, rc)

RECURSIVE SumLen(_)
SumLen(ws) ==
    IF ws = {} THEN 0
    ELSE LET w == CHOOSE x \in ws : TRUE IN Len(w) + SumLen(ws \ {w})

\* PbGe with the floor left out.
PbGeNoFloor(s, q) == SumLen(s) >= 0

\* PbGe as a strict inequality.
PbGeStrict(s, q) == SumLen(s) > q

\* PbGe([(var, len(w)) for w, var in word_selection.items()], minQuality)
PbGe(s, q) == SumLen(s) >= q

None == "None"

\* generateHexCrossword: max(words, key=len) if break_symmetry and words
\* else None; the square generator has no such argument.
longest_word(flag) ==
    IF geom = "hex" /\ flag /\ words # {}
    THEN CHOOSE w \in words : \A u \in words : Len(u) <= Len(w)
    ELSE None

\* SymmetryBreak with the longest word pinned to the centre along axis 0.
SymmetryBreakPinned(p, pin) == pin = None \/ <<pin, <<0, 0>>, 0>> \in p

\* What encodeProblem asserts for longest_word_to_pin: the parameter is
\* read by no statement of the encoder.
SymmetryBreak(p, pin) == TRUE

\* The conjunction of the list res returned by encodeProblem, called with
\* the longest word of the given flag.
SatisfiesFlag(flag, g, p, s, row, st, rc) ==
    /\ PlacementEffects(g, p)
    /\ WordConstraints(p, s)
    /\ NoJunk(g, p)
    /\ Connected(g, row, st, rc)
    /\ PbGe(s, minQuality)
    /\ SymmetryBreak(p, longest_word(flag))

Satisfies(g, p, s, row, st, rc) ==
    SatisfiesFlag(break_symmetry, g, p, s, row, st, rc)

----------------------------------------------------------------------------
(* solve: the solver returns some assignment that satisfies the assertions.*)
(* The candidates below are the search space; Satisfies decides.  Every    *)
(* candidate set is a superset of the assignments Satisfies admits:        *)
(*  - more than two true placement variables of one word violate AtMost,   *)
(*  - a cell under a true placement variable has the value that variable   *)
(*    demands (unit propagation of the two implications), and a cell under *)
(*    none is EMPTY when some placement variable is true (this last one   *)
(*    only on grids of more than ExhaustiveCells cells),                   *)
(*  - the reach variables of the square grid are only bounded from above   *)
(*    (inCc[i] implies the step), so of the chains that satisfy them the   *)
(*    solver is given the greatest one and the ones that stay at the start *)
(*    cell for k levels first; a grid has some satisfying chain exactly    *)
(*    when the greatest chain satisfies the closure.                       *)

UpToTwo(X) == {{}} \cup { {a, b} : a \in X, b \in X }

RECURSIVE PCandidates(_)
PCandidates(ws) ==
    IF ws = {} THEN {{}}
    ELSE LET w == CHOOSE x \in ws : TRUE
             own == { q \in UpToTwo(word_placement_vars[w]) : AtMostOne(q, w) }
         IN  { a \cup b : a \in own, b \in PCandidates(ws \ {w}) }

\* What a true placement variable demands of single cells.
Demands(v) ==
    MatchPairs(v[1], v[2], v[3])
        \cup { <<b, EMPTY>> : b \in BoundingChars(v[1], v[2], v[3]) }

\* Grids of at most this many cells are searched without the shortcut
\* below; it keeps the search of the larger grids short.
ExhaustiveCells == 9

Shortcut == Cardinality(Cells) > ExhaustiveCells

\* The cells under the letters of the true placement variables.
Covered(p) == { d[1] : d \in UNION { MatchPairs(v[1], v[2], v[3]) : v \in p } }

\* A letter on a cell outside Covered(p) has no letter next to it (a run of
\* two letters starts with a true placement variable, whose word ends where
\* the run ends), so with the closure it is the only letter of the grid:
\* when some placement variable is true the cells outside are EMPTY, and
\* when none is true at most one cell holds a letter.
CellValues(c, p) ==
    { x \in (IF Shortcut /\ p # {} /\ c \notin Covered(p) THEN {EMPTY} ELSE Values) :
        \A v \in p : \A d \in Demands(v) : d[1] = c => x = d[2] }

\* The cells in the order of the encoder's loops over the grid.
RECURSIVE SortCells(_)
SortCells(cs) ==
    IF cs = {} THEN <<>>
    ELSE LET c == CHOOSE a \in cs : \A b \in cs :
                      b = a \/ (IF geom = "rect" THEN RectBefore(a, b) ELSE HexBefore(a, b))
         IN  <<c>> \o SortCells(cs \ {c})

\* The cells a seq_start assertion reads.
SeqCells(co) == {Step(co[1], co[2], -1), co[1], Step(co[1], co[2], 1)} \cap Cells

\* Backtracking over the cells in order: a value is kept for cell order[k]
\* when every seq_start assertion whose cells are all assigned holds.
RECURSIVE GridCandidates(_, _, _, _)
GridCandidates(order, places, k, p) ==
    IF k = 0 THEN { [c \in {} |-> EMPTY] }
    ELSE LET c == order[k]
             done == { order[j] : j \in 1..k }
             due == { co \in places : c \in SeqCells(co) /\ SeqCells(co) \subseteq done }
             free == IF Shortcut THEN done \ Covered(p) ELSE {}
             values == CellValues(c, p)
         IN  { h \in { (c :> x) @@ g :
                       x \in values, g \in GridCandidates(order, places, k - 1, p) } :
               /\ \A co \in due : SeqStartMatchesPlacement(h, p, co[1], co[2])
               /\ \A a \in free : \A b \in free :
                      h[a] # EMPTY /\ h[b] # EMPTY => a = b }

RowIndexes == IF geom = "rect" THEN 0..(size - 1) ELSE {}

\* The start variables: a true start variable lies on a non-empty cell.
StartCandidates(g) ==
    IF geom = "rect"
    THEN UNION { { <<row, st>> : st \in { t \in SUBSET NonEmpty(g) : RectCcStartOK(g, row, t) } } :
                 row \in { r \in SUBSET RowIndexes : RectCcStartRowOK(g, r) } }
    ELSE { <<{}, st>> : st \in { t \in SUBSET NonEmpty(g) : HexCcStartOK(g, t) } }

Grow(g, prev) == { c \in Cells : ReachStep(g, c, prev) }

\* <<st, Grow(st), Grow(Grow(st)), ...>>, of length n + 1
RECURSIVE GrowSeq(_, _, _)
GrowSeq(g, st, n) ==
    IF n = 0 THEN <<st>>
    ELSE LET sq == GrowSeq(g, st, n - 1) IN Append(sq, Grow(g, sq[n]))

\* The chains that stay at the start cells for k levels and grow at every
\* level after that.
ChainCandidates(g, st) ==
    LET sq == GrowSeq(g, st, MaxDist)
    IN  { [i \in 0..MaxDist |-> IF i <= k THEN st ELSE sq[i - k + 1]] : k \in 0..MaxDist }

StartAndChain(g) ==
    UNION { { <<rs[1], rs[2], rc>> : rc \in ChainCandidates(g, rs[2]) } :
            rs \in StartCandidates(g) }

ModelsOn(g, p) ==
    { m \in { [grid |-> g, P |-> p, S |-> s,
               ccStartRow |-> x[1], ccStart |-> x[2], inCc |-> x[3]] :
               s \in (IF asserted.on THEN {asserted.S} ELSE SUBSET words),
               x \in { y \in StartAndChain(g) : Connected(g, y[1], y[2], y[3]) } } :
        Satisfies(m.grid, m.P, m.S, m.ccStartRow, m.ccStart, m.inCc) }

\* The placements some selection can go with: the word constraints and the
\* quality floor read no other variable.
Selectable(p) ==
    \E s \in SUBSET words : WordConstraints(p, s) /\ PbGe(s, minQuality)

Models ==
    LET order == SortCells(Cells)
        places == SeqPlaces
    IN  UNION { UNION { ModelsOn(g, p) :
                        g \in GridCandidates(order, places, Len(order), p) } :
                p \in (IF asserted.on THEN {asserted.P}
                       ELSE { q \in PCandidates(words) : Selectable(q) }) }

----------------------------------------------------------------------------
(* interpret *)

PlacedWords(p) == { w \in words : \E v \in p : v[1] = w }

\* InterpretRect with the column and the row exchanged.
InterpretRectTransposed(p) ==
    [w \in PlacedWords(p \cap placement_vars) |->
        LET cs == { v[2] : v \in { u \in p \cap placement_vars : u[1] = w } }
            c  == CHOOSE a \in cs : \A b \in cs : b = a \/ RectBefore(b, a)
        IN  [x |-> c[2], y |-> c[1], horizontal |-> (<<w, c, 0>> \in p)]]

\* Square grid: the loops run over y, then x; a later true variable
\* overwrites the entry, and at one cell horizontal is tested first.
InterpretRect(p) ==
    [w \in PlacedWords(p \cap placement_vars) |->
        LET cs == { v[2] : v \in { u \in p \cap placement_vars : u[1] = w } }
            c  == CHOOSE a \in cs : \A b \in cs : b = a \/ RectBefore(b, a)
        IN  [x |-> c[1], y |-> c[2], horizontal |-> (<<w, c, 0>> \in p)]]

\* Hex disk: the first cell in grid order with a true variable, and its
\* first true orientation; the loops break there.
InterpretHex(p) ==
    [w \in PlacedWords(p \cap placement_vars) |->
        LET cs == { v[2] : v \in { u \in p \cap placement_vars : u[1] = w } }
            c  == CHOOSE a \in cs : \A b \in cs : b = a \/ HexBefore(a, b)
            o  == CHOOSE a \in 0..2 : /\ <<w, c, a>> \in p
                                      /\ \A b \in 0..(a - 1) : <<w, c, b>> \notin p
        IN  [q |-> c[1], r |-> c[2], orientation |-> o]]

----------------------------------------------------------------------------
(* The run: generateCrossword / generateHexCrossword *)

NoModel ==
    /\ grid = <<>> /\ P = {} /\ S = {} /\ ccStartRow = {} /\ ccStart = {}
    /\ inCc = <<>>

NoLiterals == [on |-> FALSE, P |-> {}, S |-> {}]

Init ==
    /\ geom \in {"rect", "hex"}
    /\ words \in WordLists
    /\ size \in 0..(IF geom = "rect" THEN MaxSize ELSE MaxRadius)
    /\ minQuality \in {0, MaxQuality}
    /\ pc = "start"
    /\ break_symmetry = TRUE /\ NoOutcome /\ NoParser /\ NoServer
    /\ grid_coords = {} /\ placement_vars = {}
    /\ word_placement_vars = <<>> /\ possible_placements = <<>>
    /\ asserted = NoLiterals
    /\ NoModel
    /\ placement = <<>>

MaxLen == Max({ Len(w) : w \in words })

\* RectInputOK without the test of the longest word.
RectInputOKNoLength == minQuality >= 0 /\ size > 0

\* The assertions at the head of the generators.
RectInputOK == minQuality >= 0 /\ size > 0 /\ size >= MaxLen

HexInputOK == size > 0 /\ 2 * size + 1 >= MaxLen

InputOK == IF geom = "rect" THEN RectInputOK ELSE HexInputOK

Validate ==
    /\ pc = "start"
    /\ pc' = IF InputOK THEN "valid" ELSE "error"
    /\ report' = IF InputOK THEN report ELSE "assertion"
    /\ UNCHANGED <<input, encoding, asserted, cnf, calls, result, parser, server,
                   model, placement>>

\* encodeProblem: the grid, the variables and the tables of legal placements
Encode ==
    /\ pc = "valid"
    /\ LET cells == IF geom = "rect" THEN RectCells(size)
                    ELSE get_hex_cells_in_radius(size)
           fit == { v \in AllPlacementVars(cells) : Fits(cells, v[1], v[2], v[3]) }
       IN  /\ grid_coords' = cells
           /\ placement_vars' = AllPlacementVars(cells)
           /\ word_placement_vars' = [w \in words |-> { v \in fit : v[1] = w }]
           /\ possible_placements' =
                  [co \in cells \X Orientations |-> { v \in fit : v[2] = co[1] /\ v[3] = co[2] }]
    /\ pc' = "encoded"
    /\ UNCHANGED <<input, asserted, outcome, parser, server, model, placement>>

\* The quality floor is above the sum of all word lengths: the PbGe
\* assertion alone is false, which the simplifier of the export may find.
TriviallyUnsat == minQuality > SumLen(words)

\* exportCNF and what the generator does with its outcome.  The square
\* generator asserts that the goal is not inconsistent; the hex generator
\* (run with a CNF path, the default of its command line) reports the
\* inconsistency as unsatisfiable and returns.
ExportCNF ==
    /\ pc = "encoded"
    /\ \E inconsistent \in (IF TriviallyUnsat THEN BOOLEAN ELSE {FALSE}) :
        IF inconsistent
        THEN /\ cnf' = cnf
             /\ IF geom = "rect"
                THEN pc' = "error" /\ report' = "assertion"
                ELSE pc' = "unsat" /\ report' = "unsatisfiable"
        ELSE cnf' = "written" /\ pc' = "exported" /\ report' = report
    /\ UNCHANGED <<input, encoding, asserted, calls, result, parser, server,
                   model, placement>>

Solve ==
    /\ pc = "exported"
    /\ calls' = calls + 1
    /\ LET M == Models
       IN  IF M = {}
           THEN /\ pc' = "unsat" /\ result' = "unsat" /\ report' = "unsatisfiable"
                /\ UNCHANGED model
           ELSE /\ pc' = "sat" /\ result' = "sat" /\ report' = report
                /\ \E m \in M :
                    /\ grid' = m.grid /\ P' = m.P /\ S' = m.S
                    /\ ccStartRow' = m.ccStartRow /\ ccStart' = m.ccStart
                    /\ inCc' = m.inCc
    /\ UNCHANGED <<input, encoding, asserted, cnf, parser, server, placement>>

\* solve when the solver's check returns neither sat nor unsat.  The square
\* solve returns None for everything but sat, and generateCrossword prints
\* "Constraints unsatisfiable" for None; the hex generator has a branch of
\* its own for this outcome.
SolveUnknown ==
    /\ pc = "exported"
    /\ calls' = calls + 1
    /\ result' = "unknown"
    /\ IF geom = "rect"
       THEN pc' = "unsat" /\ report' = "unsatisfiable"
       ELSE pc' = "unknown" /\ report' = "timeout"
    /\ UNCHANGED <<input, encoding, asserted, cnf, parser, server, model, placement>>

Interpret ==
    /\ pc = "sat"
    /\ placement' = IF geom = "rect" THEN InterpretRect(P) ELSE InterpretHex(P)
    /\ pc' = "done"
    /\ report' = "solution"
    /\ UNCHANGED <<input, encoding, asserted, cnf, calls, result, parser, server, model>>

Next == Validate \/ Encode \/ ExportCNF \/ Solve \/ Interpret

Spec == Init /\ [][Next]_vars

----------------------------------------------------------------------------
(* Properties of the satisfying assignments *)

\* The run holds a model of the formula.
HasModel == pc \in {"sat", "done"}

Filled(c) == c \in grid_coords /\ grid[c] # EMPTY

FilledCells == { c \in grid_coords : grid[c] # EMPTY }

Neighbors(c) == IF geom = "rect" THEN RectNeighbors(c) ELSE get_hex_neighbors(c)

\* c is the first cell of a maximal run of two or more letters along o.
RunStart(c, o) ==
    Filled(c) /\ Filled(Step(c, o, 1)) /\ ~Filled(Step(c, o, -1))

RunLen(c, o) ==
    CHOOSE n \in 1..Cardinality(grid_coords) :
        /\ \A i \in 0..(n - 1) : Filled(Step(c, o, i))
        /\ ~Filled(Step(c, o, n))

\* The letters of the run that starts at c along o.
RunWord(c, o) == [i \in 1..RunLen(c, o) |-> grid[Step(c, o, i - 1)]]

\* The words whose placement variable at (c, o) is true.
PlacedAt(c, o) == { w \in words : <<w, c, o>> \in P }

\* C1: in every satisfying assignment, every maximal run of two or more
\* non-EMPTY cells along a direction of the geometry spells exactly one
\* word of the list, and that word's placement variable at the first cell
\* of the run, in that direction, is true.
C1_RunsArePlacedWords ==
    HasModel =>
        \A c \in grid_coords : \A o \in Orientations :
            RunStart(c, o) => PlacedAt(c, o) = {RunWord(c, o)}

\* A hex model with a run along the third axis and a run along another one.
C1_Witness ==
    /\ HasModel /\ geom = "hex"
    /\ \E c \in grid_coords : RunStart(c, 2)
    /\ \E c \in grid_coords : \E o \in {0, 1} : RunStart(c, o)

RECURSIVE Component(_, _)
Component(seen, cells) ==
    LET more == seen \cup { c \in cells : \E d \in seen : c \in Neighbors(d) }
    IN  IF more = seen THEN seen ELSE Component(more, cells)

\* C2: in every satisfying assignment the non-EMPTY cells are none, or one
\* connected component under the neighbour relation of the geometry
\* (4 neighbours on the square grid, 6 on the hex disk).
C2_Connected ==
    HasModel =>
        \/ FilledCells = {}
        \/ Component({CHOOSE c \in FilledCells : TRUE}, FilledCells) = FilledCells

\* A square-grid model with two placed words on four or more cells.
C2_Witness ==
    /\ HasModel /\ geom = "rect"
    /\ Cardinality(P) = 2
    /\ Cardinality(FilledCells) >= 4

\* C3: a true placement variable P(w, c, d) puts the letter w[i] on the
\* cell step(c, d, i) for every i in [0, len(w)), so two placed words that
\* share a cell agree on its letter.
C3_Coherence ==
    HasModel =>
        \A v \in P : \A i \in 0..(Len(v[1]) - 1) :
            /\ Step(v[2], v[3], i) \in grid_coords
            /\ grid[Step(v[2], v[3], i)] = v[1][i + 1]

\* Two placed words share a cell.
C3_Witness ==
    /\ HasModel
    /\ \E v \in P : \E u \in P :
          /\ v # u
          /\ \E i \in 0..(Len(v[1]) - 1) : \E j \in 0..(Len(u[1]) - 1) :
                Step(v[2], v[3], i) = Step(u[2], u[3], j)

\* C4: for every true placement variable P(w, c, d), the cell before c
\* along d and the cell after the last letter along d are each off the
\* grid or EMPTY.
C4_Bounded ==
    HasModel =>
        \A v \in P :
            /\ ~Filled(Step(v[2], v[3], -1))
            /\ ~Filled(Step(v[2], v[3], Len(v[1])))

\* One placed word has a cell of the grid before it, one has a cell of the
\* grid after it.
C4_Witness ==
    /\ HasModel
    /\ \E v \in P : Step(v[2], v[3], -1) \in grid_coords
    /\ \E v \in P : Step(v[2], v[3], Len(v[1])) \in grid_coords

\* C5: for every word at most one of its placement variables is true.
C5_PlacedAtMostOnce ==
    HasModel =>
        \A w \in words : Cardinality({ v \in P : v[1] = w }) <= 1

\* Both words of the list are placed, each once.
C5_Witness ==
    /\ HasModel
    /\ \A w \in words : Cardinality({ v \in P : v[1] = w }) = 1
    /\ \A w \in words : Cardinality(word_placement_vars[w]) > 1

\* C6: the lengths of the words with a true placement variable sum to at
\* least the quality floor Q.
C6_Quality ==
    HasModel => SumLen(PlacedWords(P)) >= minQuality

\* A model under a positive floor that the placed words meet exactly.
C6_Witness ==
    /\ HasModel
    /\ minQuality > 0
    /\ SumLen(PlacedWords(P)) = minQuality

\* C7: S(w) is true if and only if some placement variable of w is true.
C7_SelectedIffPlaced ==
    HasModel =>
        \A w \in words : w \in S <=> (\E v \in P : v[1] = w)

\* The (placed word, offset) pairs along o that cover cell c with its letter.
Covering(c, o) ==
    { vi \in P \X (0..(Cardinality(grid_coords) - 1)) :
        /\ vi[1][3] = o
        /\ vi[2] < Len(vi[1][1])
        /\ Step(vi[1][2], o, vi[2]) = c
        /\ vi[1][1][vi[2] + 1] = grid[c] }

AllCovering(c) == UNION { Covering(c, o) : o \in Orientations }

\* C8 as stated: every non-EMPTY cell's letter is w[i] for exactly one
\* pair (placed word w, offset i) whose placement covers the cell.
C8_ExactlyOneCover ==
    HasModel =>
        \A c \in FilledCells : Cardinality(AllCovering(c)) = 1

\* C8 as amended: every non-EMPTY cell is covered with its letter by at
\* most one pair (placed word, offset) per direction, and by at least one
\* pair when it has a non-EMPTY neighbour.
C8_CoveredOncePerDirection ==
    HasModel =>
        \A c \in FilledCells :
            /\ \A o \in Orientations : Cardinality(Covering(c, o)) <= 1
            /\ (\E n \in Neighbors(c) : Filled(n)) => AllCovering(c) # {}

\* A cell where two placed words cross, covered once along each direction.
C8_Witness ==
    /\ HasModel
    /\ \E c \in FilledCells :
          /\ Cardinality(AllCovering(c)) = 2
          /\ \A o \in Orientations : Cardinality(Covering(c, o)) <= 1

----------------------------------------------------------------------------
(* Round trip: a layout is constructed by hand, its placement and          *)
(* selection literals are asserted on top of the encoded formula (every    *)
(* placement variable of the layout true, every other one false, the       *)
(* selection variable of a word true exactly when the layout places it),   *)
(* and the run is solved and interpreted.                                  *)

\* The word lists of the round trip: the lists of the runs, and the four
\* two-letter words over {A, B}.
RoundTripWordLists ==
    WordLists \cup
        { { <<"A", "A">>, <<"A", "B">>, <<"B", "A">>, <<"B", "B">> } }

\* At most one legal placement for each word of ws.
RECURSIVE LayoutChoices(_, _)
LayoutChoices(cells, ws) ==
    IF ws = {} THEN {{}}
    ELSE LET w == CHOOSE x \in ws : TRUE
             own == {{}} \cup
                    { {v} : v \in { u \in {w} \X cells \X Orientations :
                                      Fits(cells, u[1], u[2], u[3]) } }
         IN  { a \cup b : a \in own, b \in LayoutChoices(cells, ws \ {w}) }

\* The letters a layout writes, as pairs <<cell, character>>.
LayoutLetters(L) ==
    UNION { { <<Step(v[2], v[3], i - 1), v[1][i]>> : i \in 1..Len(v[1]) } : v \in L }

LayoutCoherent(L) ==
    \A a \in LayoutLetters(L) : \A b \in LayoutLetters(L) : a[1] = b[1] => a[2] = b[2]

\* The grid a layout induces.
LayoutGrid(cells, L) ==
    [c \in cells |->
        IF \E a \in LayoutLetters(L) : a[1] = c
        THEN (CHOOSE a \in LayoutLetters(L) : a[1] = c)[2]
        ELSE EMPTY]

LayoutFull(cells, g, c) == c \in cells /\ g[c] # EMPTY

\* The cell before the first letter and the cell after the last letter of
\* every placed word are off the grid or EMPTY.
LayoutBounded(cells, g, L) ==
    \A v \in L : /\ ~LayoutFull(cells, g, Step(v[2], v[3], -1))
                 /\ ~LayoutFull(cells, g, Step(v[2], v[3], Len(v[1])))

\* Every maximal run of two or more letters is a placed word, exactly.
LayoutNoJunk(cells, g, L) ==
    \A c \in cells : \A o \in Orientations :
        (/\ LayoutFull(cells, g, c)
         /\ LayoutFull(cells, g, Step(c, o, 1))
         /\ ~LayoutFull(cells, g, Step(c, o, -1)))
            => \E v \in L :
                /\ v[2] = c /\ v[3] = o
                /\ \A i \in 0..(Len(v[1]) - 1) : LayoutFull(cells, g, Step(c, o, i))
                /\ ~LayoutFull(cells, g, Step(c, o, Len(v[1])))

LayoutConnected(cells, g) ==
    LET full == { c \in cells : g[c] # EMPTY }
    IN  \/ full = {}
        \/ Component({CHOOSE c \in full : TRUE}, full) = full

\* The constructed layouts on the cells: legal placements of distinct listed
\* words whose induced grid is bounded, free of junk, connected and meets
\* the quality floor.
Layouts(cells) ==
    { L \in LayoutChoices(cells, words) :
        /\ LayoutCoherent(L)
        /\ LET g == LayoutGrid(cells, L)
           IN  /\ LayoutBounded(cells, g, L)
               /\ LayoutNoJunk(cells, g, L)
               /\ LayoutConnected(cells, g)
        /\ SumLen({ v[1] : v \in L }) >= minQuality }

InitRoundTrip ==
    /\ geom \in {"rect", "hex"}
    /\ words \in RoundTripWordLists
    /\ size \in 1..(IF geom = "rect" THEN MaxSize ELSE MaxRadius)
    /\ minQuality \in {0, MaxQuality}
    /\ pc = "start"
    /\ break_symmetry = TRUE /\ NoOutcome /\ NoParser /\ NoServer
    /\ grid_coords = {} /\ placement_vars = {}
    /\ word_placement_vars = <<>> /\ possible_placements = <<>>
    /\ \E L \in Layouts(IF geom = "rect" THEN RectCells(size)
                        ELSE get_hex_cells_in_radius(size)) :
           asserted = [on |-> TRUE, P |-> L, S |-> { v[1] : v \in L }]
    /\ NoModel
    /\ placement = <<>>

SpecRoundTrip == InitRoundTrip /\ [][Next]_vars

\* The placements of the constructed layout, in the form interpret returns.
LayoutPlacement ==
    [w \in { v[1] : v \in asserted.P } |->
        LET v == CHOOSE u \in asserted.P : u[1] = w
        IN  IF geom = "rect"
            THEN [x |-> v[2][1], y |-> v[2][2], horizontal |-> (v[3] = 0)]
            ELSE [q |-> v[2][1], r |-> v[2][2], orientation |-> v[3]]]

\* C9: for every constructed layout the encoded formula with the layout's
\* P and S literals asserted is satisfiable, and interpreting the model
\* returns exactly the placements of the layout.
C9_RoundTrip ==
    asserted.on =>
        /\ pc # "unsat"
        /\ pc = "done" => placement = LayoutPlacement

----------------------------------------------------------------------------
(* The reachability unrolling of the hex encoder, applied to a pattern of  *)
(* non-EMPTY cells.  The biconditionals fix cc_start and every level of    *)
(* in_cc from the grid; the closure accepts or rejects the pattern.        *)

\* The largest number of non-EMPTY cells of a pattern.
MaxLetters == 5

InitReach ==
    /\ geom = "hex"
    /\ words = { <<"A">> }
    /\ size \in 1..MaxRadius
    /\ minQuality = 0
    /\ pc = "cells"
    /\ break_symmetry = TRUE /\ NoOutcome /\ NoParser /\ NoServer
    /\ grid_coords = get_hex_cells_in_radius(size)
    /\ \E f \in SUBSET get_hex_cells_in_radius(size) :
           /\ Cardinality(f) <= MaxLetters
           /\ grid = [c \in get_hex_cells_in_radius(size) |->
                         IF c \in f THEN "A" ELSE EMPTY]
    /\ placement_vars = {}
    /\ word_placement_vars = <<>> /\ possible_placements = <<>>
    /\ asserted = NoLiterals
    /\ P = {} /\ S = {} /\ ccStartRow = {} /\ ccStart = {} /\ inCc = <<>>
    /\ placement = <<>>

\* cc_start[c] == And(grid[c] != empty, And(prev_cells_empty))
CcStart ==
    /\ pc = "cells"
    /\ \E st \in SUBSET NonEmpty(grid) :
           HexCcStartOK(grid, st) /\ ccStart' = st
    /\ pc' = "reach"
    /\ UNCHANGED <<input, encoding, asserted, outcome, parser, server, grid, P, S, ccStartRow, inCc, placement>>

\* The next level of in_cc: level 0 equals cc_start, level i is the step
\* from level i - 1.
Propagate ==
    /\ pc = "reach"
    /\ LET i == Cardinality(DOMAIN inCc)
       IN  /\ i <= MaxDist
           /\ inCc' = inCc @@ (i :> (IF i = 0 THEN ccStart ELSE Grow(grid, inCc[i - 1])))
    /\ UNCHANGED <<input, encoding, asserted, outcome, parser, server, grid, P, S, ccStartRow, ccStart,
                   placement, pc>>

\* Implies(grid[c] != empty, in_cc[max_dist][c]) for every cell
Close ==
    /\ pc = "reach"
    /\ Cardinality(DOMAIN inCc) = MaxDist + 1
    /\ pc' = IF AllReach(grid, inCc[MaxDist]) THEN "accepted" ELSE "rejected"
    /\ UNCHANGED <<input, encoding, asserted, outcome, parser, server, model, placement>>

NextReach == CcStart \/ Propagate \/ Close

SpecReach == InitReach /\ [][NextReach]_vars

\* C10: on the hex disk of any radius R >= 1 every cell of a connected set
\* of non-EMPTY cells lies within D = |cells| \div 2 steps, inside the set,
\* of the set's first cell in (q, r) order, so the unrolling of D levels
\* accepts every connected set.
C10_HexBoundSafe ==
    (geom = "hex" /\ pc \in {"accepted", "rejected"}
        /\ LayoutConnected(grid_coords, grid))
        => pc = "accepted"

----------------------------------------------------------------------------
(* The reachability unrolling of the square encoder, applied to a pattern  *)
(* of non-EMPTY cells.  The biconditionals fix ccStartRow and ccStart from *)
(* the grid; the reach variables are bounded by implications, and the      *)
(* pattern is accepted when some chain of maxDistance(size) levels         *)
(* satisfies the closure.                                                  *)

\* A path of 41 cells on the grid of side 8 that touches itself nowhere:
\* every cell has only its predecessor and its successor as neighbours.
SnakePath ==
    << <<0, 0>>, <<1, 0>>, <<2, 0>>, <<3, 0>>, <<4, 0>>, <<5, 0>>,
       <<6, 0>>, <<7, 0>>, <<7, 1>>, <<7, 2>>, <<6, 2>>, <<5, 2>>,
       <<4, 2>>, <<4, 3>>, <<3, 3>>, <<2, 3>>, <<2, 2>>, <<1, 2>>,
       <<0, 2>>, <<0, 3>>, <<0, 4>>, <<1, 4>>, <<1, 5>>, <<2, 5>>,
       <<3, 5>>, <<4, 5>>, <<5, 5>>, <<5, 4>>, <<6, 4>>, <<7, 4>>,
       <<7, 5>>, <<7, 6>>, <<6, 6>>, <<6, 7>>, <<5, 7>>, <<4, 7>>,
       <<3, 7>>, <<2, 7>>, <<1, 7>>, <<0, 7>>, <<0, 6>> >>

\* The side of the smallest grid that holds the path.
SnakeSide == 1 + Max({ SnakePath[i][1] : i \in 1..Len(SnakePath) })

\* The patterns on the grid of side n: every pattern of at most MaxLetters
\* cells on the small grids, the initial stretches of the path on its grid.
RectPatterns(n) ==
    IF n <= MaxSize
    THEN { f \in SUBSET RectCells(n) : Cardinality(f) <= MaxLetters }
    ELSE { { SnakePath[i] : i \in 1..k } : k \in 1..Len(SnakePath) }

InitRectReach ==
    /\ geom = "rect"
    /\ words = { <<"A">> }
    /\ size \in (1..MaxSize) \cup {SnakeSide}
    /\ minQuality = 0
    /\ pc = "cells"
    /\ break_symmetry = TRUE /\ NoOutcome /\ NoParser /\ NoServer
    /\ grid_coords = RectCells(size)
    /\ \E f \in RectPatterns(size) :
           grid = [c \in RectCells(size) |-> IF c \in f THEN "A" ELSE EMPTY]
    /\ placement_vars = {}
    /\ word_placement_vars = <<>> /\ possible_placements = <<>>
    /\ asserted = NoLiterals
    /\ P = {} /\ S = {} /\ ccStartRow = {} /\ ccStart = {} /\ inCc = <<>>
    /\ placement = <<>>

\* ccStartRow and ccStart: at most one row and at most one cell can be
\* true, since each is false once an earlier one is true.
RectCcStart ==
    /\ pc = "cells"
    /\ \E row \in {{}} \cup { {y} : y \in RowIndexes } :
       \E st \in {{}} \cup { {c} : c \in NonEmpty(grid) } :
           /\ RectCcStartRowOK(grid, row) /\ RectCcStartOK(grid, row, st)
           /\ ccStartRow' = row /\ ccStart' = st
    /\ pc' = "reach"
    /\ UNCHANGED <<input, encoding, asserted, outcome, parser, server, grid, P, S, inCc, placement>>

\* The reach variables and the closure: accepted with a chain that
\* satisfies them, rejected when there is none.
RectSolveReach ==
    /\ pc = "reach"
    /\ LET ok == { rc \in ChainCandidates(grid, ccStart) :
                     RectReachOK(grid, ccStart, rc) }
       IN  IF ok = {}
           THEN pc' = "rejected" /\ UNCHANGED inCc
           ELSE pc' = "accepted" /\ \E rc \in ok : inCc' = rc
    /\ UNCHANGED <<input, encoding, asserted, outcome, parser, server, grid, P, S, ccStartRow, ccStart,
                   placement>>

NextRectReach == RectCcStart \/ RectSolveReach

SpecRectReach == InitRectReach /\ [][NextRectReach]_vars

\* C11: on the square grid of any side N >= 1 every cell of a connected set
\* of non-EMPTY cells lies within maxDistance(N) = (N+1)^2 \div 2 - 1 steps,
\* inside the set, of the set's first cell in row-major order, so the
\* unrolling of maxDistance(N) levels accepts every connected set.
C11_RectBoundSafe ==
    (geom = "rect" /\ pc \in {"accepted", "rejected"}
        /\ LayoutConnected(grid_coords, grid))
        => pc = "accepted"

----------------------------------------------------------------------------
(* The end-to-end scenarios: runs of the generators on literal inputs.     *)

HI == <<"H", "I">>
IT == <<"I", "T">>
HEX == <<"H", "E", "X">>
EYE == <<"E", "Y", "E">>
HELLO == <<"H", "E", "L", "L", "O">>
HEXAGONAL == <<"H", "E", "X", "A", "G", "O", "N", "A", "L">>

Scenario(g, ws, n, q) == [geom |-> g, words |-> ws, size |-> n, minQuality |-> q]

HiIt == Scenario("rect", {HI, IT}, 3, 4)

HexEye == Scenario("hex", {HEX, EYE}, 2, 6)

\* A quality floor above the summed lengths of the words.
TooMuch(ws) == SumLen(ws) + 1

Scenarios ==
    { HiIt, HexEye,
      Scenario("rect", {HELLO}, 4, 5),
      Scenario("hex", {HEXAGONAL}, 3, 9),
      Scenario("rect", { <<"A", "B">> }, 2, 100),
      Scenario("hex", { <<"A", "B">> }, 1, 100) }
    \cup { Scenario("rect", ws, MaxSize, TooMuch(ws)) : ws \in WordLists }
    \cup { Scenario("hex", ws, MaxRadius, TooMuch(ws)) : ws \in WordLists }
    \cup { Scenario("rect", ws, 2, -1) : ws \in WordLists }
    \cup { Scenario("hex", ws, 1, -1) : ws \in WordLists }
    \cup { Scenario(g, ws, 0, 0) : g \in {"rect", "hex"}, ws \in WordLists }

\* HI horizontal at (x=0, y=0), IT vertical at (x=1, y=0)
HiItLayout == { <<HI, <<0, 0>>, 0>>, <<IT, <<1, 0>>, 1>> }

\* The literals asserted on top of the formula of a scenario.
ScenarioLiterals(sc) ==
    IF sc = HiIt
    THEN {NoLiterals, [on |-> TRUE, P |-> HiItLayout, S |-> {HI, IT}]}
    ELSE {NoLiterals}

InitScenario ==
    /\ \E sc \in Scenarios :
        /\ geom = sc.geom /\ words = sc.words /\ size = sc.size
        /\ minQuality = sc.minQuality
        /\ asserted \in ScenarioLiterals(sc)
    /\ pc = "start"
    /\ break_symmetry = TRUE /\ NoOutcome /\ NoParser /\ NoServer
    /\ grid_coords = {} /\ placement_vars = {}
    /\ word_placement_vars = <<>> /\ possible_placements = <<>>
    /\ NoModel
    /\ placement = <<>>

SpecScenario == InitScenario /\ [][Next]_vars

Is(sc) ==
    geom = sc.geom /\ words = sc.words /\ size = sc.size /\ minQuality = sc.minQuality

\* C12: the hex formula for {HEX, EYE}, R = 2, Q = 6 is satisfiable, and its
\* models place both words, along two different axes, with the non-EMPTY
\* cells connected.
C12_HexEye ==
    Is(HexEye) =>
        /\ pc # "unsat" /\ pc # "error"
        /\ HasModel =>
            /\ \E v \in P : \E u \in P :
                   v[1] = HEX /\ u[1] = EYE /\ v[3] # u[3]
            /\ LayoutConnected(grid_coords, grid)

\* C12 as the encoder has it: the hex formula for {HEX, EYE}, R = 2, Q = 6
\* is unsatisfiable.  The quality floor needs both words, the words can
\* only meet in the E in the middle of HEX, and then the Y of EYE lies next
\* to the H or the X along the third axis: a run of two letters that is no
\* word.
C12_HexEyeUnsat ==
    Is(HexEye) => pc \in {"start", "valid", "encoded", "exported", "unsat"}

C12_Witness == Is(HexEye) /\ pc = "unsat"

\* C13: the square formula for {HI, IT}, N = 3, Q = 4 is satisfiable, and
\* with HI horizontal at (x=0, y=0) and IT vertical at (x=1, y=0) asserted
\* it stays satisfiable; its models have exactly the letters of the two
\* words on the grid, every other cell EMPTY, and quality 4.
C13_HiIt ==
    Is(HiIt) =>
        /\ pc # "unsat" /\ pc # "error"
        /\ (asserted.on /\ HasModel) =>
            /\ P = HiItLayout
            /\ grid = LayoutGrid(grid_coords, HiItLayout)
            /\ SumLen(S) = 4

C13_Witness ==
    /\ Is(HiIt) /\ asserted.on /\ pc = "done"
    /\ placement = (HI :> [x |-> 0, y |-> 0, horizontal |-> TRUE])
                   @@ (IT :> [x |-> 1, y |-> 0, horizontal |-> FALSE])
    /\ grid[<<0, 0>>] = "H" /\ grid[<<1, 0>>] = "I" /\ grid[<<1, 1>>] = "T"

\* C14: when Q is greater than the sum of the lengths of all words the
\* formula has no satisfying assignment, on either geometry.
C14_QualityOutOfReach ==
    minQuality > SumLen(words) => ~HasModel

\* {AB}, N = 2, Q = 100 was encoded and found unsatisfiable.
C14_Witness ==
    /\ Is(Scenario("rect", { <<"A", "B">> }, 2, 100))
    /\ pc = "unsat" /\ placement_vars # {}

----------------------------------------------------------------------------
(* Preconditions *)

\* The longest word does not fit the grid, or the grid has no cell.
TooSmall ==
    \/ size <= 0
    \/ MaxLen > (IF geom = "rect" THEN size ELSE 2 * size + 1)

\* Nothing was allocated and the solver was not run.
NothingDone ==
    /\ pc \in {"start", "error"}
    /\ grid_coords = {} /\ placement_vars = {}
    /\ word_placement_vars = <<>> /\ possible_placements = <<>>
    /\ NoModel /\ placement = <<>>

\* C15: when the longest word is longer than the grid allows (more than N
\* letters on the square grid, more than 2R + 1 on the hex disk) or the grid
\* dimension is not positive, the run ends with a precondition error before
\* encodeProblem: no variable is allocated, nothing is exported and the
\* solver is never run.
C15_TooSmallIsError == TooSmall => NothingDone

\* {HELLO}, N = 4, Q = 5 ended with the precondition error.
C15_Witness ==
    /\ Is(Scenario("rect", {HELLO}, 4, 5))
    /\ pc = "error" /\ placement_vars = {}

\* C16: a negative minimum quality ends the run with a precondition error
\* before any variable is allocated, in both generators; it is never
\* encoded and handed to the solver.
C16_NegativeQualityIsError == minQuality < 0 => NothingDone

----------------------------------------------------------------------------
(* Further properties of the satisfying assignments *)

\* C17: for every cell c and direction d whose successor cell is in the
\* grid, in every satisfying assignment c and its successor hold letters
\* and the cell before c is off the grid or EMPTY, if and only if some
\* legal placement variable P(w, c, d) is true; on both geometries.
C17_SeqStartIffPlacement ==
    HasModel =>
        \A c \in grid_coords : \A o \in Orientations :
            Step(c, o, 1) \in grid_coords =>
                ((Filled(c) /\ Filled(Step(c, o, 1)) /\ ~Filled(Step(c, o, -1)))
                    <=> \E v \in P \cap legal : v[2] = c /\ v[3] = o)

\* A square-grid model with a vertical word of three letters: its first
\* cell starts a run, its second cell has letters on both sides.
C17_Witness ==
    /\ HasModel /\ geom = "rect"
    /\ \E v \in P : Len(v[1]) = 3 /\ v[3] = 1

\* A placement variable in the form interpret returns.
PlacementOf(v) ==
    IF geom = "rect"
    THEN [x |-> v[2][1], y |-> v[2][2], horizontal |-> (v[3] = 0)]
    ELSE [q |-> v[2][1], r |-> v[2][2], orientation |-> v[3]]

\* Every letter of the placement lies on the grid.
OnGrid(v) == \A i \in 0..(Len(v[1]) - 1) : Step(v[2], v[3], i) \in grid_coords

Encoded == pc \in {"encoded", "exported", "sat", "unsat", "done"}

FirstFilled ==
    { c \in FilledCells :
        \A b \in FilledCells :
            b = c \/ (IF geom = "rect" THEN RectBefore(c, b) ELSE HexBefore(c, b)) }

\* C19: in every satisfying assignment the start variable is true for the
\* first non-EMPTY cell in reading order (row-major on the square grid,
\* (q, r) lexicographic on the hex disk) and for no other cell, and for no
\* cell when the grid is empty.
C19_StartIsFirstCell == HasModel => ccStart = FirstFilled

\* A square-grid model whose first letter is not on the first cell, with a
\* second letter in the same row.
C19_Witness ==
    /\ HasModel /\ geom = "rect"
    /\ \E c \in ccStart :
        /\ c # <<0, 0>>
        /\ Filled(<<c[1] + 1, c[2]>>)

----------------------------------------------------------------------------
(* interpret applied to an assignment that need not satisfy the formula:   *)
(* up to two placement variables are true, every grid cell is EMPTY and    *)
(* no other variable is true.  interpret reads the placement variables     *)
(* only.                                                                   *)

InitInterpret ==
    /\ geom \in {"rect", "hex"}
    /\ words \in WordLists
    /\ size = (IF geom = "rect" THEN MaxSize - 1 ELSE MaxRadius)
    /\ minQuality = 0
    /\ pc = "sat"
    /\ break_symmetry = TRUE
    /\ cnf = "written" /\ calls = 1 /\ result = "sat" /\ report = "none"
    /\ NoParser /\ NoServer
    /\ LET cells == IF geom = "rect" THEN RectCells(size)
                    ELSE get_hex_cells_in_radius(size)
           fit == { v \in AllPlacementVars(cells) : Fits(cells, v[1], v[2], v[3]) }
       IN  /\ grid_coords = cells
           /\ placement_vars = AllPlacementVars(cells)
           /\ word_placement_vars = [w \in words |-> { v \in fit : v[1] = w }]
           /\ possible_placements =
                  [co \in cells \X Orientations |-> { v \in fit : v[2] = co[1] /\ v[3] = co[2] }]
           /\ grid = [c \in cells |-> EMPTY]
           /\ P \in UpToTwo(AllPlacementVars(cells))
    /\ asserted = NoLiterals
    /\ S = {} /\ ccStartRow = {} /\ ccStart = {} /\ inCc = <<>>
    /\ placement = <<>>

NextInterpret == Interpret

SpecInterpret == InitInterpret /\ [][NextInterpret]_vars

\* The words with two or more true placement variables.
Duplicated == { w \in words : Cardinality({ v \in P : v[1] = w }) >= 2 }

\* C20: when the assignment given to interpret has two or more true
\* placement variables of one word, interpret ends with a fatal error and
\* returns no placement for that word, on both geometries.
C20_DuplicateIsFatal ==
    \A w \in Duplicated : pc # "done" /\ w \notin DOMAIN placement

----------------------------------------------------------------------------
(* The placement map returned by interpret *)

\* C21: for every satisfying assignment a word whose selection variable is
\* false is absent from the map interpret returns: the words of the map are
\* exactly the selected words.
C21_MapIsSelection == pc = "done" => DOMAIN placement = S

AtMostOnePerWord ==
    \A w \in words : Cardinality({ v \in P : v[1] = w }) <= 1

\* C22: when every word has at most one true placement variable, interpret
\* returns for each word with a true P(w, c, d) that start cell and
\* direction (square grid: x the column, y the row, horizontal for
\* orientation 0; hex disk: q, r and the orientation), and no entry for any
\* other word.
C22_InterpretReturnsPlacement ==
    (pc = "done" /\ AtMostOnePerWord) =>
        /\ DOMAIN placement = { v[1] : v \in P }
        /\ \A v \in P : placement[v[1]] = PlacementOf(v)

\* Two words with one true variable each on the square grid, one of them
\* vertical and off the diagonal.
C22_Witness ==
    /\ pc = "done" /\ AtMostOnePerWord /\ geom = "rect"
    /\ Cardinality(P) = 2
    /\ \E v \in P : v[3] = 1 /\ v[2][1] # v[2][2]

----------------------------------------------------------------------------
(* What the run reports *)

\* The export found the goal inconsistent: the run ended after encoding,
\* without a call of solve.
FoundInconsistent ==
    /\ grid_coords # {} /\ calls = 0
    /\ pc \in {"error", "unsat"}

\* C23: when the CNF preprocessing finds the formula inconsistent, the run
\* ends as a normal unsatisfiable result (the unsatisfiable message, exit
\* status 0), with no CNF file written and no model, and not as an aborted
\* session, in both generators.
C23_TrivialUnsatIsNormal ==
    FoundInconsistent =>
        /\ pc = "unsat" /\ report = "unsatisfiable"
        /\ cnf = "none" /\ NoModel

\* The run with the outcomes of a solver that may give up.
NextRun == Next \/ SolveUnknown

SpecRun == Init /\ [][NextRun]_vars

\* C24: a solver outcome that is neither sat nor unsat is reported as such,
\* never as unsatisfiable and never as a solution, and a run calls the
\* solver at most once, in both generators.
C24_UnknownIsReported ==
    /\ result = "unknown" => report = "timeout"
    /\ calls <= 1

----------------------------------------------------------------------------
(* The symmetry-breaking flag of the hex generator *)

InitSymmetry ==
    /\ geom = "hex"
    /\ words \in WordLists
    /\ size \in 1..MaxRadius
    /\ minQuality \in {0, MaxQuality}
    /\ break_symmetry \in BOOLEAN
    /\ pc = "start"
    /\ NoOutcome /\ NoParser /\ NoServer
    /\ grid_coords = {} /\ placement_vars = {}
    /\ word_placement_vars = <<>> /\ possible_placements = <<>>
    /\ asserted = NoLiterals
    /\ NoModel
    /\ placement = <<>>

SpecSymmetry == InitSymmetry /\ [][Next]_vars

----------------------------------------------------------------------------
(* One-letter words, the empty layout and the hex directions *)

\* C26: in every satisfying assignment a word of one letter has a true
\* placement variable P(w, c, d) only where the successor cell of c along d
\* is off the grid (square grid: horizontally in the last column,
\* vertically in the last row).
C26_OneLetterOnlyAtBorder ==
    HasModel =>
        \A v \in P : Len(v[1]) = 1 => Step(v[2], v[3], 1) \notin grid_coords

\* A model of the square grid with a one-letter word placed horizontally,
\* in the last column.
C26_Witness ==
    /\ HasModel /\ geom = "rect" /\ size >= 2
    /\ \E v \in P : Len(v[1]) = 1 /\ v[3] = 0 /\ v[2][1] = size - 1

\* The assignment with every cell EMPTY and every variable false.
EmptyGrid == [c \in grid_coords |-> EMPTY]

NoReach == [i \in 0..MaxDist |-> {}]

\* C27: with Q = 0, for every word list and grid that pass the
\* preconditions the formula is satisfiable: the assignment with every
\* cell EMPTY and every placement, selection, start and reach variable
\* false satisfies all assertions, on both geometries.
C27_EmptyLayoutSatisfies ==
    (Encoded /\ minQuality = 0) =>
        /\ Satisfies(EmptyGrid, {}, {}, {}, {}, NoReach)
        /\ pc # "unsat"

\* The solver returned the empty assignment.
C27_Witness ==
    /\ pc = "sat" /\ minQuality = 0
    /\ grid = EmptyGrid /\ P = {} /\ S = {}
    /\ ccStartRow = {} /\ ccStart = {} /\ inCc = NoReach

\* The cells under the letters of a true placement variable.
PlacedCells(v) == { Step(v[2], v[3], i) : i \in 0..(Len(v[1]) - 1) }

\* C28: on the hex disk every pair of neighbouring cells (get_hex_neighbors)
\* is a pair (c, step(c, d, 1)) for exactly one of the three directions;
\* the cell before the start and the cell after the end that the encoder
\* uses for the bounding and for seq_start are step(c, d, -1) and
\* step(c, d, len(w)); and in every model two adjacent non-EMPTY cells lie
\* on a run along an encoded direction, under one placed word.
C28_HexDirections ==
    geom = "hex" =>
        /\ \A c \in grid_coords :
            /\ \A n \in get_hex_neighbors(c) :
                   Cardinality({ d \in 0..2 :
                       n = HexStep(c, d, 1) \/ c = HexStep(n, d, 1) }) = 1
            /\ \A d \in 0..2 :
                /\ {HexStep(c, d, 1), HexStep(c, d, -1)} \subseteq get_hex_neighbors(c)
                /\ HexPrevCell(c, d) = HexStep(c, d, -1)
                /\ HexNextCell(c, d, 1) = HexStep(c, d, 1)
                /\ \A w \in words : HexNextCell(c, d, Len(w)) = HexStep(c, d, Len(w))
        /\ HasModel =>
               \A a \in FilledCells : \A b \in FilledCells \cap get_hex_neighbors(a) :
                   \E v \in P : {a, b} \subseteq PlacedCells(v)

\* A hex model with a word along axis 2.
C28_Witness ==
    /\ geom = "hex" /\ HasModel
    /\ \E v \in P : v[3] = 2 /\ Len(v[1]) >= 2

----------------------------------------------------------------------------
(* solve_cnf.py: parse_solver_output.  A line of the solver's output is    *)
(* the sequence of its whitespace-separated tokens.                        *)

\* No generator run: the variables of the generators are idle.
NoRun ==
    /\ geom = "none" /\ words = {} /\ size = 0 /\ minQuality = 0
    /\ break_symmetry = FALSE
    /\ grid_coords = {} /\ placement_vars = {}
    /\ word_placement_vars = <<>> /\ possible_placements = <<>>
    /\ asserted = NoLiterals
    /\ NoModel /\ NoOutcome
    /\ placement = <<>>

MaxLines == 3

OutputLines ==
    { <<"s", "SATISFIABLE">>, <<"s", "UNSATISFIABLE">>, <<"c", "cadical">>,
      <<"v", "1", "-2">>, <<"v", "3", "0">>, <<"v", "1", "0">>, <<"v", "0">> }

Outputs == UNION { [1..n -> OutputLines] : n \in 1..MaxLines }

\* line.startswith("s SATISFIABLE") and the like
StartsWith(line, a, b) == Len(line) >= 2 /\ line[1] = a /\ line[2] = b

\* line.startswith("v ")
IsValueLine(line) == Len(line) >= 2 /\ line[1] = "v"

\* line.split()[1:-1]
ValuesOf(line) == SubSeq(line, 2, Len(line) - 1)

\* The loop of parse_solver_output from line k on.  A solution of None is
\* has_solution = FALSE.
RECURSIVE ParseFrom(_, _, _)
ParseFrom(lines, k, acc) ==
    IF k > Len(lines) THEN acc
    ELSE IF StartsWith(lines[k], "s", "SATISFIABLE")
         THEN ParseFrom(lines, k + 1, [acc EXCEPT !.result = "SATISFIABLE"])
    ELSE IF StartsWith(lines[k], "s", "UNSATISFIABLE")
         THEN [result |-> "UNSATISFIABLE", has_solution |-> FALSE, solution |-> <<>>]
    ELSE IF IsValueLine(lines[k])
         THEN ParseFrom(lines, k + 1,
                  [acc EXCEPT !.has_solution = TRUE,
                              !.solution = acc.solution \o ValuesOf(lines[k])])
    ELSE ParseFrom(lines, k + 1, acc)

parse_solver_output(lines) ==
    ParseFrom(lines, 1, [result |-> "UNKNOWN", has_solution |-> FALSE, solution |-> <<>>])

InitParse ==
    /\ NoRun /\ NoServer
    /\ pc = "output"
    /\ output \in Outputs
    /\ parsed = <<>>

Parse ==
    /\ pc = "output"
    /\ parsed' = parse_solver_output(output)
    /\ pc' = "parsed"
    /\ UNCHANGED <<input, encoding, asserted, model, placement, outcome, output, server>>

NextParse == Parse

SpecParse == InitParse /\ [][NextParse]_vars

ValueLines(lines) == { k \in 1..Len(lines) : lines[k][1] = "v" }

EndsWithZero(line) == line[Len(line)] = "0"

\* "s SATISFIABLE", no "s UNSATISFIABLE", and one or more "v" lines of
\* which only the last ends with the terminating 0.
SatisfiableOutput(lines) ==
    /\ \E k \in 1..Len(lines) : lines[k] = <<"s", "SATISFIABLE">>
    /\ \A k \in 1..Len(lines) : lines[k] # <<"s", "UNSATISFIABLE">>
    /\ ValueLines(lines) # {}
    /\ \A k \in ValueLines(lines) :
           EndsWithZero(lines[k]) <=> (\A j \in ValueLines(lines) : j <= k)

\* Every token after the leading "v" of the value lines, in order.
RECURSIVE Literals(_, _)
Literals(lines, k) ==
    IF k = 0 THEN <<>>
    ELSE Literals(lines, k - 1)
             \o (IF lines[k][1] = "v" THEN SubSeq(lines[k], 2, Len(lines[k])) ELSE <<>>)

\* The assignment: the literals without the single terminating 0.
Assignment(lines) ==
    LET all == Literals(lines, Len(lines)) IN SubSeq(all, 1, Len(all) - 1)

\* C29: for an output with "s SATISFIABLE" and one or more "v" lines of
\* which only the last ends with the terminating 0, parse_solver_output
\* returns every literal of the assignment in order, without the leading
\* "v" of each line and without the terminating 0; for an output with
\* "s UNSATISFIABLE" it returns ("UNSATISFIABLE", None).
C29_ParseKeepsLiterals ==
    pc = "parsed" =>
        /\ SatisfiableOutput(output) =>
               parsed = [result |-> "SATISFIABLE", has_solution |-> TRUE,
                         solution |-> Assignment(output)]
        /\ (\E k \in 1..Len(output) : output[k] = <<"s", "UNSATISFIABLE">>) =>
               parsed = [result |-> "UNSATISFIABLE", has_solution |-> FALSE,
                         solution |-> <<>>]

----------------------------------------------------------------------------
(* app.py: the handler of /api/generate, run by one thread per request in  *)
(* one server process.  The working directory belongs to the process.      *)

MaxRequests == 3

\* tempfile.mkdtemp(): a fresh directory per request
OutputDir(r) == <<"output_dir", r>>

InitServer ==
    /\ NoRun /\ NoParser
    /\ pc = "serving"
    /\ cwd = <<"base">>
    /\ \E n \in 1..MaxRequests :
        /\ tpc = [r \in 1..n |-> "validate"]
        /\ original_dir = [r \in 1..n |-> <<"unset">>]
        /\ started_in = [r \in 1..n |-> <<"unset">>]

\* The input is rejected (400) or the script is not found (500): the
\* handler returns before it touches the working directory.
Reject(r) ==
    /\ tpc[r] = "validate"
    /\ tpc' = [tpc EXCEPT ![r] = "done"]
    /\ UNCHANGED <<cwd, original_dir, started_in>>

\* original_dir = os.getcwd()
GetCwd(r) ==
    /\ tpc[r] = "validate"
    /\ original_dir' = [original_dir EXCEPT ![r] = cwd]
    /\ tpc' = [tpc EXCEPT ![r] = "chdir"]
    /\ UNCHANGED <<cwd, started_in>>

\* os.chdir(output_dir)
Chdir(r) ==
    /\ tpc[r] = "chdir"
    /\ cwd' = OutputDir(r)
    /\ tpc' = [tpc EXCEPT ![r] = "run"]
    /\ UNCHANGED <<original_dir, started_in>>

\* subprocess.run starts the generator: the child gets the working
\* directory the process has at that moment.
Spawn(r) ==
    /\ tpc[r] = "run"
    /\ started_in' = [started_in EXCEPT ![r] = cwd]
    /\ tpc' = [tpc EXCEPT ![r] = "wait"]
    /\ UNCHANGED <<cwd, original_dir>>

\* The child has ended or timed out; finally: os.chdir(original_dir)
Restore(r) ==
    /\ tpc[r] = "wait"
    /\ cwd' = original_dir[r]
    /\ tpc' = [tpc EXCEPT ![r] = "done"]
    /\ UNCHANGED <<original_dir, started_in>>

NextServer ==
    /\ \E r \in DOMAIN tpc : Reject(r) \/ GetCwd(r) \/ Chdir(r) \/ Spawn(r) \/ Restore(r)
    /\ UNCHANGED <<input, encoding, asserted, model, placement, outcome, parser, pc>>

SpecServer == InitServer /\ [][NextServer]_vars

\* C30: with any number of requests handled concurrently, the generator of
\* each request starts in that request's own output directory, and once
\* all requests have finished the working directory of the process is the
\* one it had before the first request.
C30_OwnDirectoryAndRestored ==
    pc = "serving" =>
        /\ \A r \in DOMAIN tpc :
               started_in[r] # <<"unset">> => started_in[r] = OutputDir(r)
        /\ (\A r \in DOMAIN tpc : tpc[r] = "done") => cwd = <<"base">>

====
